---- MODULE Spec2Model ----
(***************************************************************************)
(* Model of the shopping cart package: the Store (shopping_cart/database.py *)
(* class Database, one SQLite table "cart") and the Cart                    *)
(* (shopping_cart/api.py, class ShoppingCart, an in-memory list mirroring   *)
(* the table).                                                              *)
(*                                                                          *)
(* The table is a sequence of rows <<id, item, price>> in rowid order, the  *)
(* order in which "SELECT id, item, price FROM cart" returns them.  The     *)
(* in-memory list is a sequence of dictionaries, modelled as records        *)
(* [id, item, price].  Prices are bounded integers (e.g. cents); the REAL   *)
(* column stores them as equal numbers.  Python's None is the empty         *)
(* sequence and a given optional value v is <<v>>.                          *)
(***************************************************************************)
EXTENDS Integers, Sequences, FiniteSets

\* ---- bounds of the model ------------------------------------------------
\* capacity of the in-memory list and of the table, largest rowid handed out
MaxItems == 2
MaxId == 2
\* entries of the list, hence rows of the table widget, in a GUI session
MaxRows == 1

\* ---- inputs ---------------------------------------------------------------
Names == {"", "a"}
Prices == {0, 1}

None == <<>>
Some(v) == <<v>>
OptNames == {None} \cup {Some(n) : n \in Names}
OptPrices == {None} \cup {Some(p) : p \in Prices}

VARIABLES items, table, external, store, shown, last

vars == <<items, table, external, store, shown, last>>

\* ---- Python helpers -------------------------------------------------------
\* truth value of an optional argument in "if new_name and new_price":
\* None, the empty string and 0 are all false
truthy_name(o) == o # None /\ o[1] # ""
truthy_price(o) == o # None /\ o[1] # 0

\* fault variant: drops the last element whatever x is
list_remove_last(its, x) == SubSeq(its, 1, Len(its) - 1)
\* list.remove(x): removes the first element equal to x
list_remove(its, x) ==
    LET k == CHOOSE i \in 1..Len(its) :
                 its[i] = x /\ \A j \in 1..(i - 1) : its[j] # x
    IN  SubSeq(its, 1, k - 1) \o SubSeq(its, k + 1, Len(its))

\* index of the first element the loop "for i in self.items" stops at, 0 if
\* the loop runs to its end
first_match(its, name) ==
    IF \E i \in 1..Len(its) : its[i].item = name
    THEN CHOOSE i \in 1..Len(its) :
             its[i].item = name /\ \A j \in 1..(i - 1) : its[j].item # name
    ELSE 0

\* ---- Store: shopping_cart/database.py -------------------------------------
RECURSIVE max_rowid(_)
max_rowid(tbl) ==
    IF tbl = <<>> THEN 0
    ELSE LET m == max_rowid(Tail(tbl))
         IN  IF Head(tbl)[1] > m THEN Head(tbl)[1] ELSE m

\* fault variant: the number of rows plus one
lastrowid_count(tbl) == Len(tbl) + 1
\* cursor.lastrowid after INSERT on an INTEGER PRIMARY KEY column without
\* AUTOINCREMENT: one more than the largest rowid in the table, 1 if empty
lastrowid(tbl) == max_rowid(tbl) + 1

db_add_item(tbl, item, price) == Append(tbl, <<lastrowid(tbl), item, price>>)

\* fault variant: deletes the first matching row only
RECURSIVE db_remove_item_first(_, _)
db_remove_item_first(tbl, item) ==
    IF tbl = <<>> THEN <<>>
    ELSE IF Head(tbl)[2] = item THEN Tail(tbl)
    ELSE <<Head(tbl)>> \o db_remove_item_first(Tail(tbl), item)
\* DELETE FROM cart WHERE item = ?
RECURSIVE db_remove_item(_, _)
db_remove_item(tbl, item) ==
    IF tbl = <<>> THEN <<>>
    ELSE IF Head(tbl)[2] = item THEN db_remove_item(Tail(tbl), item)
    ELSE <<Head(tbl)>> \o db_remove_item(Tail(tbl), item)

\* UPDATE cart SET ... WHERE item = ?  (the three branches of update_item)
db_update_item(tbl, old_name, new_name, new_price) ==
    IF truthy_name(new_name) /\ truthy_price(new_price)
    THEN [i \in DOMAIN tbl |->
            IF tbl[i][2] = old_name
            THEN <<tbl[i][1], new_name[1], new_price[1]>> ELSE tbl[i]]
    ELSE IF truthy_name(new_name)
    THEN [i \in DOMAIN tbl |->
            IF tbl[i][2] = old_name
            THEN <<tbl[i][1], new_name[1], tbl[i][3]>> ELSE tbl[i]]
    ELSE IF truthy_price(new_price)
    THEN [i \in DOMAIN tbl |->
            IF tbl[i][2] = old_name
            THEN <<tbl[i][1], tbl[i][2], new_price[1]>> ELSE tbl[i]]
    ELSE tbl

\* ---- Cart: shopping_cart/api.py -------------------------------------------
\* SELECT id, item, price FROM cart, each row turned into a dictionary
get_all_items(tbl) ==
    [i \in DOMAIN tbl |-> [id |-> tbl[i][1], item |-> tbl[i][2], price |-> tbl[i][3]]]

get_item(its, item_name) ==
    IF first_match(its, item_name) = 0 THEN None
    ELSE Some(its[first_match(its, item_name)])

get_count(its) == Len(its)

RECURSIVE sum_from(_, _)
sum_from(acc, its) ==
    IF its = <<>> THEN acc ELSE sum_from(acc + Head(its).price, Tail(its))
\* fault variant: sums the "id" key instead of "price"
RECURSIVE sum_ids_from(_, _)
sum_ids_from(acc, its) ==
    IF its = <<>> THEN acc ELSE sum_ids_from(acc + Head(its).id, Tail(its))
get_total_price_ids(its) == sum_ids_from(0, its)
\* sum(i["price"] for i in self.items): left fold from 0
get_total_price(its) == sum_from(0, its)

\* number of entries of the list, and of rows of the table, named name
hits(its, name) == Cardinality({i \in 1..Len(its) : its[i].item = name})
rows(tbl, name) == Cardinality({i \in 1..Len(tbl) : tbl[i][2] = name})

\* the list holds exactly the rows of the table, in row order
InSync(its, tbl) ==
    /\ Len(its) = Len(tbl)
    /\ \A i \in 1..Len(its) :
          its[i].id = tbl[i][1] /\ its[i].item = tbl[i][2] /\ its[i].price = tbl[i][3]

\* ---- Store initialization: Database.__init__ ---------------------------------
\* store is what the database file holds besides the rows of cart: the schema
\* of the cart table ("none" before the table exists, "legacy" without NOT
\* NULL, "current" with it), whether a table cart_new exists, the rows of
\* schema_version (none as well when that table does not exist), and how many
\* times the copy-drop-rename migration ran to its end.
NoFile == [cart |-> "none", cart_new |-> FALSE, schema_version |-> <<>>,
           migrations |-> 0]

\* SQL NULL in the item column of a legacy row: a value that is no name
NULL == "NULL"

RECURSIVE max_version(_)
max_version(versions) ==
    IF versions = <<>> THEN 0
    ELSE LET m == max_version(Tail(versions))
         IN  IF Head(versions) > m THEN Head(versions) ELSE m

\* SELECT version FROM schema_version ORDER BY version DESC LIMIT 1, and 0
\* when there is no row
current_version(st) ==
    IF st.schema_version = <<>> THEN 0 ELSE max_version(st.schema_version)

\* CREATE TABLE IF NOT EXISTS cart, without NOT NULL
create_table(st) == IF st.cart = "none" THEN [st EXCEPT !.cart = "legacy"] ELSE st

\* fault variant: SELECT DISTINCT item, price, a pair is copied once
copy_rows_distinct(tbl) ==
    LET keep == {i \in DOMAIN tbl :
                    \A j \in 1..(i - 1) : <<tbl[j][2], tbl[j][3]>> # <<tbl[i][2], tbl[i][3]>>}
        nth(k) == CHOOSE i \in keep : Cardinality({j \in keep : j < i}) = k - 1
    IN  [k \in 1..Cardinality(keep) |-> <<k, tbl[nth(k)][2], tbl[nth(k)][3]>>]
\* INSERT INTO cart_new(item, price) SELECT item, price FROM cart: the rows in
\* rowid order, with fresh ids 1, 2, ...
copy_rows(tbl) == [i \in DOMAIN tbl |-> <<i, tbl[i][2], tbl[i][3]>>]

\* update_schema on the file st with the cart rows tbl: the file, the rows
\* and the exception raised ("" if none).  CREATE TABLE cart_new is committed
\* on its own, so a copy that fails on NOT NULL leaves cart_new behind
update_schema(st, tbl, version) ==
    IF version >= 1
    THEN [store |-> st, table |-> tbl, error |-> ""]
    ELSE IF st.cart_new
    THEN [store |-> st, table |-> tbl, error |-> "OperationalError"]
    ELSE IF \E i \in DOMAIN tbl : tbl[i][2] = NULL
    THEN [store |-> [st EXCEPT !.cart_new = TRUE], table |-> tbl,
          error |-> "IntegrityError"]
    ELSE [store |-> [st EXCEPT !.cart = "current",
                               !.schema_version = Append(@, 1),
                               !.migrations = @ + 1],
          table |-> copy_rows(tbl), error |-> ""]

\* Database(): create_table, then ensure_database_version
Database(st, tbl) ==
    update_schema(create_table(st), tbl, current_version(create_table(st)))

\* ---- the process-wide log ----------------------------------------------------
\* The levels of the lines a call appends to the log file set up by
\* logging.basicConfig(level=logging.INFO, ...); INFO, WARNING and ERROR all
\* pass that level.
db_add_item_log == <<"INFO">>
\* fault variant: the Store deletes without logging
db_remove_item_silent == <<>>
db_remove_item_log == <<"INFO">>
add_item_log == db_add_item_log \o <<"INFO">>
remove_item_log(its, item) ==
    (IF first_match(its, item) # 0 THEN <<"INFO">> ELSE <<>>) \o db_remove_item_log
update_item_log(no_updates) == IF no_updates THEN <<"WARNING">> ELSE <<"INFO">>

\* the call that produced the current state: the operation, its name
\* argument, whether it took the "No updates provided." return, the id it
\* returned (0 if none), how many list entries and table rows carried that
\* name when it was called, whether the list equalled the table at that
\* moment, the exception it raised to its caller ("" if it returned), the
\* titles of the message boxes it showed, the Cart methods it called (for a
\* front-end handler; for initialize, update_schema when it entered the
\* migration) and the lines it appended to the log
Call(op, item, no_updates, ret) ==
    [op |-> op, item |-> item, no_updates |-> no_updates, ret |-> ret,
     hits |-> hits(items, item), rows |-> rows(table, item),
     sync0 |-> InSync(items, table), error |-> "", dialogs |-> <<>>,
     calls |-> <<>>,
     logged |-> CASE op = "add" -> add_item_log
                  [] op = "remove" -> remove_item_log(items, item)
                  [] op = "update" -> update_item_log(no_updates)
                  [] OTHER -> <<>>]

Init ==
    /\ table = <<>>
    /\ items = get_all_items(table)
    /\ external = FALSE
    /\ shown = <<>>
    /\ store = Database(NoFile, <<>>).store
    /\ last = [op |-> "init", item |-> "", no_updates |-> FALSE, ret |-> 0,
               hits |-> 0, rows |-> 0, sync0 |-> TRUE, error |-> "",
               dialogs |-> <<>>, calls |-> <<>>,
               logged |-> <<"INFO", "INFO">>]

\* fault variant: inserts the row and leaves the list alone
add_item_db_only(item, price) ==
    /\ Len(items) < MaxItems /\ Len(table) < MaxItems
    /\ lastrowid(table) <= MaxId
    /\ items' = items
    /\ table' = db_add_item(table, item, price)
    /\ last' = Call("add", item, FALSE, lastrowid(table))
    /\ UNCHANGED <<external, store, shown>>
\* fault variant: puts the new entry at the head of the list
add_item_prepend(item, price) ==
    /\ Len(items) < MaxItems /\ Len(table) < MaxItems
    /\ lastrowid(table) <= MaxId
    /\ items' = <<[item |-> item, price |-> price, id |-> lastrowid(table)]>> \o items
    /\ table' = db_add_item(table, item, price)
    /\ last' = Call("add", item, FALSE, lastrowid(table))
    /\ UNCHANGED <<external, store, shown>>
add_item(item, price) ==
    /\ Len(items) < MaxItems /\ Len(table) < MaxItems
    /\ lastrowid(table) <= MaxId
    /\ items' = Append(items, [item |-> item, price |-> price, id |-> lastrowid(table)])
    /\ table' = db_add_item(table, item, price)
    /\ last' = Call("add", item, FALSE, lastrowid(table))
    /\ UNCHANGED <<external, store, shown>>

\* fault variant: returns without the Store call when the list has no match
remove_item_only_on_match(item) ==
    /\ items' = IF first_match(items, item) = 0 THEN items
                ELSE list_remove(items, items[first_match(items, item)])
    /\ table' = IF first_match(items, item) = 0 THEN table
                ELSE db_remove_item(table, item)
    /\ last' = Call("remove", item, FALSE, 0)
    /\ UNCHANGED <<external, store, shown>>
remove_item(item) ==
    /\ items' = IF first_match(items, item) = 0 THEN items
                ELSE list_remove(items, items[first_match(items, item)])
    /\ table' = db_remove_item(table, item)
    /\ last' = Call("remove", item, FALSE, 0)
    /\ UNCHANGED <<external, store, shown>>

\* fault variant: no early return, and an absent value is written as "" or 0
update_item_unguarded(old_name, new_name, new_price) ==
    /\ items' = IF first_match(items, old_name) = 0 THEN items
                ELSE [items EXCEPT ![first_match(items, old_name)] =
                        [id |-> @.id,
                         item |-> IF new_name = None THEN "" ELSE new_name[1],
                         price |-> IF new_price = None THEN 0 ELSE new_price[1]]]
    /\ table' = db_update_item(table, old_name, new_name, new_price)
    /\ last' = Call("update", old_name, new_name = None /\ new_price = None, 0)
    /\ UNCHANGED <<external, store, shown>>
\* fault variant: the loop has no break and changes every entry named old_name
update_item_all_matches(old_name, new_name, new_price) ==
    /\ IF new_name = None /\ new_price = None
       THEN UNCHANGED <<items, table>>
       ELSE /\ items' = [i \in DOMAIN items |->
                           IF items[i].item # old_name THEN items[i]
                           ELSE [id |-> items[i].id,
                                 item |-> IF new_name # None THEN new_name[1]
                                          ELSE items[i].item,
                                 price |-> IF new_price # None THEN new_price[1]
                                           ELSE items[i].price]]
            /\ table' = db_update_item(table, old_name, new_name, new_price)
    /\ last' = Call("update", old_name, new_name = None /\ new_price = None, 0)
    /\ UNCHANGED <<external, store, shown>>
\* fault variant: the list is updated and the Store is not called
update_item_list_only(old_name, new_name, new_price) ==
    /\ IF new_name = None /\ new_price = None
       THEN UNCHANGED <<items, table>>
       ELSE /\ items' = IF first_match(items, old_name) = 0 THEN items
                        ELSE [items EXCEPT ![first_match(items, old_name)] =
                                [id |-> @.id,
                                 item |-> IF new_name # None THEN new_name[1] ELSE @.item,
                                 price |-> IF new_price # None THEN new_price[1]
                                           ELSE @.price]]
            /\ table' = table
    /\ last' = Call("update", old_name, new_name = None /\ new_price = None, 0)
    /\ UNCHANGED <<external, store, shown>>
update_item(old_name, new_name, new_price) ==
    /\ IF new_name = None /\ new_price = None
       THEN UNCHANGED <<items, table>>
       ELSE /\ items' = IF first_match(items, old_name) = 0 THEN items
                        ELSE [items EXCEPT ![first_match(items, old_name)] =
                                [id |-> @.id,
                                 item |-> IF new_name # None THEN new_name[1] ELSE @.item,
                                 price |-> IF new_price # None THEN new_price[1]
                                           ELSE @.price]]
            /\ table' = db_update_item(table, old_name, new_name, new_price)
    /\ last' = Call("update", old_name, new_name = None /\ new_price = None, 0)
    /\ UNCHANGED <<external, store, shown>>

\* fault variant: extends the list by the rows read instead of replacing it
refresh_items_extend ==
    /\ items' = items \o get_all_items(table)
    /\ last' = Call("refresh", "", FALSE, 0)
    /\ UNCHANGED <<table, external, store, shown>>
refresh_items ==
    /\ items' = get_all_items(table)
    /\ last' = Call("refresh", "", FALSE, 0)
    /\ UNCHANGED <<table, external, store, shown>>

\* an out-of-band writer inserts a row into the table through its own
\* connection, once; the cart's list is not told.  external tells whether
\* that write has been made
ExternalInsert(item, price) ==
    /\ ~external
    /\ Len(table) < MaxItems
    /\ lastrowid(table) <= MaxId
    /\ table' = db_add_item(table, item, price)
    /\ external' = TRUE
    /\ last' = Call("external", item, FALSE, lastrowid(table))
    /\ UNCHANGED <<items, store, shown>>

Next ==
    \/ \E n \in Names, p \in Prices : add_item(n, p)
    \/ \E n \in Names : remove_item(n)
    \/ \E n \in Names, nn \in OptNames, np \in OptPrices : update_item(n, nn, np)
    \/ refresh_items
    \/ \E n \in Names, p \in Prices : ExternalInsert(n, p)

Spec == Init /\ [][Next]_vars

\* ---- argument validation and exports: shopping_cart/api.py ------------------
\* Python types of the values a caller may pass to add_item
PyTypes == {"str", "int", "float", "NoneType"}

\* fault variant: only the name is validated
valid_types_name_only(item_type, price_type) == item_type = "str"
\* isinstance(item, str) and isinstance(price, (int, float))
valid_types(item_type, price_type) ==
    item_type = "str" /\ price_type \in {"int", "float"}

\* add_item called with values of any type: item and price are the values
\* when the types are the valid ones
add_item_any(item_type, price_type, item, price) ==
    IF valid_types(item_type, price_type)
    THEN add_item(item, price)
    ELSE /\ last' = [Call("add", "", FALSE, 0) EXCEPT
                        !.error = "ValueError", !.logged = <<>>]
         /\ UNCHANGED <<items, table, external, store, shown>>

\* the "id" of a dictionary that has no "id" key: no rowid is 0
NoId == 0

\* add_item when the INSERT of Database.add_item raises (the database is
\* locked by another connection, the disk is full): the dictionary was
\* appended before the Store call and stays without its id, the transaction
\* is rolled back and the error goes to the caller
add_item_insert_error(item, price) ==
    /\ Len(items) < MaxItems
    /\ items' = Append(items, [item |-> item, price |-> price, id |-> NoId])
    /\ table' = table
    /\ last' = [Call("add", item, FALSE, 0) EXCEPT
                   !.error = "sqlite3.Error", !.logged = <<>>]
    /\ UNCHANGED <<external, store, shown>>

\* what open(filename, 'w') and the writes that follow can do
IOOutcomes == {"ok", "FileNotFoundError", "PermissionError"}
IOErrors == IOOutcomes \ {"ok"}

\* the exception an export raises to its caller ("" if it returns) and the
\* lines it logs, by what open and write did.
\* export_shopping_list has no try around open and write
export_shopping_list_error(io) == IF io = "ok" THEN "" ELSE io
export_shopping_list_log(io) == IF io = "ok" THEN <<"INFO">> ELSE <<>>
\* export_cart_to_json: except FileNotFoundError only
export_cart_to_json_error(io) ==
    IF io \in {"ok", "FileNotFoundError"} THEN "" ELSE io
export_cart_to_json_log(io) ==
    IF io = "ok" THEN <<"INFO">>
    ELSE IF io = "FileNotFoundError" THEN <<"ERROR">> ELSE <<>>
\* export_logs: except Exception.  An error of open is caught; with the file
\* open, get_log_messages fails on self.log_console, which is None, and that
\* is caught as well
export_logs_error(io) == ""
export_logs_log(io) == <<"ERROR">>

export_shopping_list(io) ==
    /\ last' = [Call("export_shopping_list", "", FALSE, 0) EXCEPT
                   !.error = export_shopping_list_error(io),
                   !.logged = export_shopping_list_log(io)]
    /\ UNCHANGED <<items, table, external, store, shown>>

export_cart_to_json(io) ==
    /\ last' = [Call("export_cart_to_json", "", FALSE, 0) EXCEPT
                   !.error = export_cart_to_json_error(io),
                   !.logged = export_cart_to_json_log(io)]
    /\ UNCHANGED <<items, table, external, store, shown>>

export_logs(io) ==
    /\ last' = [Call("export_logs", "", FALSE, 0) EXCEPT
                   !.error = export_logs_error(io),
                   !.logged = export_logs_log(io)]
    /\ UNCHANGED <<items, table, external, store, shown>>

\* ---- GUI: shopping_cart/gui.py ------------------------------------------------
\* texts a user may leave in the price field or pass as a PRICE argument
PriceTexts == {"0", "1", "", "abc"}
\* those of them that denote no number
NotNumbers == {"", "abc"}

\* fault variant: an empty text counts as 0
parse_float_lenient(text) ==
    CASE text = "0" -> Some(0)
      [] text = "1" -> Some(1)
      [] text = "" -> Some(0)
      [] OTHER -> None
\* float(text): the number a text denotes, None where float raises ValueError
parse_float(text) ==
    CASE text = "0" -> Some(0)
      [] text = "1" -> Some(1)
      [] OTHER -> None

\* shown is the table widget of the GUI: its rows, each with the id, the name
\* and the price cell; a price cell holds Some(p), shown as the price with two
\* decimals and " $", or None for a text that float() rejects.  Without a GUI
\* it stays empty.
\* refresh_table: the widget is cleared and filled from cart.items
refresh_table(its) ==
    [i \in DOMAIN its |-> [id |-> its[i].id, item |-> its[i].item,
                           price |-> Some(its[i].price)]]

\* the handler of the Add button: the name field always holds a string.
\* After the add it calls refresh_table, which logs a line and calls
\* calculate_total, then calculate_total again, then logs its own line
add_item_to_cart(item_name, price_text) ==
    IF parse_float(price_text) = None
    THEN /\ last' = [Call("add_item_to_cart", item_name, FALSE, 0) EXCEPT
                        !.dialogs = <<"Invalid Input">>, !.logged = <<"ERROR">>]
         /\ UNCHANGED <<items, table, external, store, shown>>
    ELSE /\ Len(items) < MaxItems /\ Len(table) < MaxItems
         /\ lastrowid(table) <= MaxId
         /\ items' = Append(items, [item |-> item_name,
                                    price |-> parse_float(price_text)[1],
                                    id |-> lastrowid(table)])
         /\ table' = db_add_item(table, item_name, parse_float(price_text)[1])
         /\ last' = [Call("add_item_to_cart", item_name, FALSE, lastrowid(table))
                        EXCEPT !.calls = <<"add_item", "get_total_price",
                                           "get_total_price">>,
                               !.logged = add_item_log \o <<"INFO", "INFO">>]
         /\ shown' = refresh_table(items')
         /\ UNCHANGED <<external, store>>


\* ---- CLI: shopping_cart/cli.py ------------------------------------------------
\* The parsed arguments: an option that was not given is None (or FALSE for a
\* flag), --add holds <<ITEM, PRICE>>, --update its one or more texts, and
\* the options of one argument <<text>>.
NoArgs ==
    [add |-> None, remove |-> None, list |-> FALSE, total |-> FALSE,
     count |-> FALSE, get |-> None, refresh |-> FALSE, update |-> None,
     export_list |-> None, export_cart |-> None, export_logs |-> None]

\* the argument lists of --update
UpdateArgs ==
    {<<"a">>, <<"a", "1">>, <<"", "a">>, <<"a", "a", "0">>, <<"a", "">>}

\* text.replace('.', '', 1).isdigit() on the texts of UpdateArgs
isdigit(text) == text \in {"0", "1"}

\* the state a Cart call leaves, from the state c = [items, table, log] it
\* finds; a call is <<method, arguments...>>
cart_call(c, call, io) ==
    CASE call[1] = "add_item" ->
           [items |-> Append(c.items, [item |-> call[2], price |-> call[3],
                                       id |-> lastrowid(c.table)]),
            table |-> db_add_item(c.table, call[2], call[3]),
            log |-> c.log \o add_item_log]
      [] call[1] = "remove_item" ->
           [items |-> IF first_match(c.items, call[2]) = 0 THEN c.items
                      ELSE list_remove(c.items, c.items[first_match(c.items, call[2])]),
            table |-> db_remove_item(c.table, call[2]),
            log |-> c.log \o remove_item_log(c.items, call[2])]
      [] call[1] = "refresh_items" ->
           [c EXCEPT !.items = get_all_items(c.table)]
      [] call[1] = "update_item" ->
           IF call[3] = None /\ call[4] = None
           THEN [c EXCEPT !.log = @ \o update_item_log(TRUE)]
           ELSE [items |-> IF first_match(c.items, call[2]) = 0 THEN c.items
                           ELSE [c.items EXCEPT ![first_match(c.items, call[2])] =
                                   [id |-> @.id,
                                    item |-> IF call[3] # None THEN call[3][1]
                                             ELSE @.item,
                                    price |-> IF call[4] # None THEN call[4][1]
                                              ELSE @.price]],
                 table |-> db_update_item(c.table, call[2], call[3], call[4]),
                 log |-> c.log \o update_item_log(FALSE)]
      [] call[1] = "export_shopping_list" ->
           [c EXCEPT !.log = @ \o export_shopping_list_log(io)]
      [] call[1] = "export_cart_to_json" ->
           [c EXCEPT !.log = @ \o export_cart_to_json_log(io)]
      [] call[1] = "export_logs" ->
           [c EXCEPT !.log = @ \o export_logs_log(io)]
      [] OTHER -> c

RECURSIVE cart_after(_, _, _)
cart_after(calls, c, io) ==
    IF calls = <<>> THEN c
    ELSE cart_after(Tail(calls), cart_call(c, Head(calls), io), io)

\* The three export blocks of run: the calls made and the exception that
\* ends run ("" if none); an export that raises ends run
run_exports(args, io) ==
    LET l == args.export_list # None
        c == args.export_cart # None
        g == args.export_logs # None
        el == IF l THEN export_shopping_list_error(io) ELSE ""
        ec == IF c /\ el = "" THEN export_cart_to_json_error(io) ELSE ""
    IN  [calls |-> (IF l THEN <<<<"export_shopping_list">>>> ELSE <<>>)
                   \o (IF c /\ el = "" THEN <<<<"export_cart_to_json">>>> ELSE <<>>)
                   \o (IF g /\ el = "" /\ ec = "" THEN <<<<"export_logs">>>> ELSE <<>>),
         error |-> IF el # "" THEN el ELSE ec]

\* The --update block of run with u the texts of --update
run_update(args, io) ==
    LET u == args.update
        new_item == IF Len(u) = 2 /\ isdigit(u[2]) THEN None ELSE Some(u[2])
    IN  IF Len(u) < 2 \/ Len(u) > 3
        THEN [calls |-> <<>>, error |-> ""]
        ELSE IF ~truthy_name(new_item) /\ parse_float(u[2]) = None
        THEN [calls |-> <<>>, error |-> "ValueError"]
        ELSE IF Len(u) = 3 /\ parse_float(u[3]) = None
        THEN [calls |-> <<>>, error |-> "ValueError"]
        ELSE LET new_price == IF Len(u) = 3 THEN parse_float(u[3])
                              ELSE IF truthy_name(new_item) THEN None
                              ELSE parse_float(u[2])
                 e == run_exports(args, io)
             IN  [calls |-> <<<<"update_item", u[1], new_item, new_price>>>> \o e.calls,
                  error |-> e.error]

\* The Cart calls run(args) makes, in order, and the exception that ends it.
\* The --update block is inside the --refresh block and the export blocks
\* are inside the --update block, past its call of update_item
run_calls(args, io) ==
    LET r == IF args.refresh /\ args.update # None THEN run_update(args, io)
             ELSE [calls |-> <<>>, error |-> ""]
    IN [calls |->
          (IF args.add # None /\ parse_float(args.add[2]) # None
           THEN <<<<"add_item", args.add[1], parse_float(args.add[2])[1]>>>> ELSE <<>>)
          \o (IF truthy_name(args.remove) THEN <<<<"remove_item", args.remove[1]>>>> ELSE <<>>)
          \o (IF args.list THEN <<<<"items">>>> ELSE <<>>)
          \o (IF args.total THEN <<<<"get_total_price">>>> ELSE <<>>)
          \o (IF args.count THEN <<<<"get_count">>>> ELSE <<>>)
          \o (IF truthy_name(args.get) THEN <<<<"get_item", args.get[1]>>>> ELSE <<>>)
          \o (IF args.refresh THEN <<<<"refresh_items">>>> ELSE <<>>)
          \o r.calls,
        error |-> r.error]

run(args, io) ==
    LET r == run_calls(args, io)
        c == cart_after(r.calls, [items |-> items, table |-> table, log |-> <<>>], io)
    IN  /\ \/ \A i \in DOMAIN r.calls : r.calls[i][1] # "add_item"
           \/ Len(items) < MaxItems /\ Len(table) < MaxItems /\ lastrowid(table) <= MaxId
        /\ items' = c.items
        /\ table' = c.table
        /\ last' = [Call("run", "", FALSE, 0) EXCEPT
                       !.calls = [i \in DOMAIN r.calls |-> r.calls[i][1]],
                       !.error = r.error,
                       !.logged = c.log]
        /\ UNCHANGED <<external, store, shown>>

\* the command lines with one option and well-formed arguments, by option
OneOption(o) ==
    CASE o = "add" -> {[NoArgs EXCEPT !.add = <<"a", t>>] : t \in {"0", "1"}}
      [] o = "remove" -> {[NoArgs EXCEPT !.remove = Some("a")]}
      [] o = "list" -> {[NoArgs EXCEPT !.list = TRUE]}
      [] o = "total" -> {[NoArgs EXCEPT !.total = TRUE]}
      [] o = "count" -> {[NoArgs EXCEPT !.count = TRUE]}
      [] o = "get" -> {[NoArgs EXCEPT !.get = Some("a")]}
      [] o = "refresh" -> {[NoArgs EXCEPT !.refresh = TRUE]}
      [] o = "update" -> {[NoArgs EXCEPT !.update = u] :
                             u \in {<<"a", "1">>, <<"", "a">>, <<"a", "a", "0">>}}
      [] o = "export_list" -> {[NoArgs EXCEPT !.export_list = Some("out")]}
      [] o = "export_cart" -> {[NoArgs EXCEPT !.export_cart = Some("out")]}
      [] o = "export_logs" -> {[NoArgs EXCEPT !.export_logs = Some("out")]}

Options == {"add", "remove", "list", "total", "count", "get", "refresh",
            "update", "export_list", "export_cart", "export_logs"}

\* the Cart operation of an option; --list reads the attribute items
CartOperation(o) ==
    CASE o = "add" -> "add_item"
      [] o = "remove" -> "remove_item"
      [] o = "list" -> "items"
      [] o = "total" -> "get_total_price"
      [] o = "count" -> "get_count"
      [] o = "get" -> "get_item"
      [] o = "refresh" -> "refresh_items"
      [] o = "update" -> "update_item"
      [] o = "export_list" -> "export_shopping_list"
      [] o = "export_cart" -> "export_cart_to_json"
      [] o = "export_logs" -> "export_logs"

\* the command lines run is given: one option, ill-formed arguments, an
\* empty name, and --refresh with --update and an export
CommandLines ==
    UNION {OneOption(o) : o \in Options}
    \cup {[NoArgs EXCEPT !.add = <<"a", "abc">>],
          [NoArgs EXCEPT !.remove = Some("")], [NoArgs EXCEPT !.get = Some("")]}
    \cup {[NoArgs EXCEPT !.refresh = TRUE, !.update = u] : u \in UpdateArgs}
    \cup {[NoArgs EXCEPT !.refresh = TRUE, !.update = <<"a", "1">>,
                         !.export_list = Some("out")],
          [NoArgs EXCEPT !.refresh = TRUE, !.update = <<"a", "1">>,
                         !.export_cart = Some("out"), !.export_logs = Some("out")]}

\* the values of a call whose types are rejected, and the I/O outcome of a
\* command line without an export, do not matter: one of each is taken
NextApp ==
    \/ \E it \in PyTypes, pt \in PyTypes :
           \E n \in IF valid_types(it, pt) THEN Names ELSE {""},
              p \in IF valid_types(it, pt) THEN Prices ELSE {0} :
               add_item_any(it, pt, n, p)
    \/ \E n \in Names : remove_item(n)
    \/ \E io \in IOOutcomes : export_shopping_list(io)
    \/ \E io \in IOOutcomes : export_cart_to_json(io)
    \/ \E io \in IOOutcomes : export_logs(io)
    \/ \E args \in CommandLines :
           \E io \in IF run_exports(args, "ok").calls = <<>> THEN {"ok"}
                     ELSE IOOutcomes :
               run(args, io)

SpecApp == Init /\ [][NextApp]_vars

\* ---- GUI: the table widget -----------------------------------------------------
\* the rows of a set, largest first: sorted(selected_rows, reverse=True)
RECURSIVE rows_descending(_)
rows_descending(selected) ==
    IF selected = {} THEN <<>>
    ELSE LET m == CHOOSE x \in selected : \A y \in selected : y <= x
         IN  <<m>> \o rows_descending(selected \ {m})

\* "Remove" of the context menu on the selected rows: for each row, from the
\* last to the first, remove_item with the name in its name cell, then the
\* row is taken out of the widget; calculate_total at the end
contextMenuEvent(selected) ==
    LET order == rows_descending(selected)
        removes == [k \in DOMAIN order |-> <<"remove_item", shown[order[k]].item>>]
        c == cart_after(removes, [items |-> items, table |-> table, log |-> <<>>], "ok")
        kept == {i \in DOMAIN shown : i \notin selected}
        nth(k) == CHOOSE i \in kept : Cardinality({j \in kept : j < i}) = k - 1
    IN  /\ items' = c.items
        /\ table' = c.table
        /\ shown' = [k \in 1..Cardinality(kept) |-> shown[nth(k)]]
        /\ last' = [Call("contextMenuEvent", "", FALSE, 0) EXCEPT
                       !.calls = [k \in DOMAIN order |-> "remove_item"]
                                 \o <<"get_total_price">>,
                       !.logged = c.log]
        /\ UNCHANGED <<external, store>>

\* itemChanged is delivered once the edited cell holds its new text: cells is
\* the widget at that moment, after the user put text into the name cell
\* (column 1) or the price cell (column 2) of row.  The handler reads both
\* new_name (item.text()) and old_name (self.table.item(row, 1).text()) from
\* the name cell of cells.  A float() that fails takes the except ValueError
\* branch: the dialog, and the price cell set back from get_item if it finds
\* the name
handle_item_changed(row, column, text) ==
    LET cells == IF column = 1 THEN [shown EXCEPT ![row].item = text]
                 ELSE [shown EXCEPT ![row].price = parse_float(text)]
        new_name == IF column = 1 THEN Some(cells[row].item) ELSE None
        old_name == cells[row].item
        new_price == cells[row].price
        c == cart_call([items |-> items, table |-> table, log |-> <<>>],
                       <<"update_item", old_name, new_name, new_price>>, "ok")
        db_item == get_item(items, cells[row].item)
    IN  /\ row \in DOMAIN shown
        /\ column \in {1, 2}
        /\ IF new_price = None
           THEN /\ shown' = [cells EXCEPT ![row].price =
                               IF db_item # None THEN Some(db_item[1].price) ELSE None]
                /\ last' = [Call("handle_item_changed", shown[row].item, FALSE, 0) EXCEPT
                               !.dialogs = <<"Invalid Input">>,
                               !.calls = <<"get_item">>,
                               !.logged = <<"ERROR">>]
                /\ UNCHANGED <<items, table>>
           ELSE /\ items' = c.items
                /\ table' = c.table
                /\ shown' = cells
                /\ last' = [Call("handle_item_changed", shown[row].item, FALSE, 0) EXCEPT
                               !.calls = <<"update_item", "get_total_price">>,
                               !.logged = c.log \o <<"INFO">>]
        /\ UNCHANGED <<external, store>>

\* the GUI on a fresh cart; edits are made to the name and the price column
NextGui ==
    \/ \E n \in Names, t \in PriceTexts :
           /\ parse_float(t) = None \/ Len(items) < MaxRows
           /\ add_item_to_cart(n, t)
    \/ \E selected \in SUBSET DOMAIN shown : contextMenuEvent(selected)
    \/ \E row \in DOMAIN shown, text \in Names : handle_item_changed(row, 1, text)
    \/ \E row \in DOMAIN shown, text \in PriceTexts : handle_item_changed(row, 2, text)

SpecGui == Init /\ [][NextGui]_vars

\* ---- starting the program on an existing file --------------------------------
\* the cart tables a file written by an earlier version may hold: rows in
\* rowid order, names possibly NULL
LegacyRows == (1..MaxId) \X (Names \cup {NULL}) \X Prices
LegacyTables ==
    {t \in UNION {[1..n -> LegacyRows] : n \in 0..MaxItems} :
        \A i \in 1..Len(t), j \in 1..Len(t) : i < j => t[i][1] < t[j][1]}

\* the file before the program first runs on it: absent, or a legacy file
InitStore ==
    /\ \/ table = <<>> /\ store = NoFile
       \/ table \in LegacyTables /\ store = [NoFile EXCEPT !.cart = "legacy"]
    /\ items = <<>>
    /\ external = FALSE
    /\ shown = <<>>
    /\ last = [op |-> "none", item |-> "", no_updates |-> FALSE, ret |-> 0,
               hits |-> 0, rows |-> 0, sync0 |-> TRUE, error |-> "",
               dialogs |-> <<>>, calls |-> <<>>, logged |-> <<>>]

\* ShoppingCart(): self.db = Database(), then self.items = get_all_items().
\* When Database() raises there is no cart
initialize ==
    LET d == Database(store, table)
    IN  /\ store' = d.store
        /\ table' = d.table
        /\ items' = IF d.error = "" THEN get_all_items(d.table) ELSE <<>>
        /\ last' = [Call("initialize", "", FALSE, 0) EXCEPT
                       !.error = d.error,
                       !.calls = IF current_version(create_table(store)) < 1
                                 THEN <<"update_schema">> ELSE <<>>,
                       !.logged = IF d.error = "" THEN <<"INFO", "INFO">> ELSE <<>>]
        /\ UNCHANGED <<external, shown>>

\* the calls are made on a cart, which exists once a ShoppingCart() returned
NextStore ==
    \/ initialize
    \/ \E n \in Names, p \in Prices : last.error = "" /\ last.op # "none" /\ add_item(n, p)
    \/ \E n \in Names : last.error = "" /\ last.op # "none" /\ remove_item(n)

SpecStore == InitStore /\ [][NextStore]_vars

\* ---- the three mutating calls alone ------------------------------------------
NextEdit ==
    \/ \E n \in Names, p \in Prices : add_item(n, p)
    \/ \E n \in Names : remove_item(n)
    \/ \E old \in Names, nn \in OptNames, np \in OptPrices : update_item(old, nn, np)

SpecEdit == Init /\ [][NextEdit]_vars

\* ---- calls that keep the names distinct ------------------------------------------
\* no add of a name the list holds, no rename onto a name another entry
\* holds, no empty new name and no new price of 0
DistinctAdd(item) == hits(items, item) = 0
DistinctUpdate(old_name, new_name, new_price) ==
    /\ new_name # None =>
          /\ new_name[1] # ""
          /\ new_name[1] = old_name \/ hits(items, new_name[1]) = 0
    /\ new_price # None => new_price[1] # 0

\* a third name, so that a rename has a free name to go to
MoreNames == Names \cup {"b"}

NextDistinct ==
    \/ \E n \in MoreNames, p \in Prices : DistinctAdd(n) /\ add_item(n, p)
    \/ \E n \in MoreNames : remove_item(n)
    \/ \E old \in MoreNames, nn \in {None} \cup {Some(n) : n \in MoreNames},
          np \in OptPrices :
           DistinctUpdate(old, nn, np) /\ update_item(old, nn, np)

SpecDistinct == Init /\ [][NextDistinct]_vars

\* ---- adds whose insert may fail ---------------------------------------------------
NextInsertError ==
    \/ \E n \in Names, p \in Prices : add_item(n, p)
    \/ \E n \in Names, p \in Prices : add_item_insert_error(n, p)
    \/ \E n \in Names : remove_item(n)

SpecInsertError == Init /\ [][NextInsertError]_vars

\* ---- properties -------------------------------------------------------------
\* the calls that change the cart
Mutations == {"add", "remove", "update"}

\* C1: with no external writer, after every add, remove or update that
\* returns, the in-memory list equals the rows of the table, entry by entry
\* (id, name, price) and in row order.
C1_MirrorSynchronized ==
    (~external /\ last.op \in Mutations) => InSync(items, table)

\* C2: with no external writer, in every state reached by add, remove,
\* update and refresh calls, every item of the in-memory list has a row in
\* the table with the same id, name and price.
C2_EveryItemHasARow ==
    ~external =>
        \A i \in 1..Len(items) :
            \E j \in 1..Len(table) :
                /\ table[j][1] = items[i].id
                /\ table[j][2] = items[i].item
                /\ table[j][3] = items[i].price

\* C3: after any sequence of add, remove, update and refresh calls, no two
\* entries of the in-memory list carry the same id.
C3_UniqueIds ==
    ~external =>
        \A i, j \in 1..Len(items) : i # j => items[i].id # items[j].id

\* C4 as stated: add(name, price) followed at once by get(name) returns an
\* item with that name and that price, in every reachable state.
C4_AddThenGet ==
    [][\A n \in Names, p \in Prices :
          (last'.op = "add" /\ add_item(n, p)) =>
              /\ get_item(items', n) # None
              /\ get_item(items', n)[1].item = n
              /\ get_item(items', n)[1].price = p]_vars

\* C4 amended: add(name, price) followed at once by get(name) returns an item
\* named name; it is the added item (price, returned id) when no entry of the
\* list carried that name before the add, and otherwise it is the earlier
\* first match, as get returned it before the add.
C4_AddThenGetFirstMatch ==
    [][\A n \in Names, p \in Prices :
          (last'.op = "add" /\ add_item(n, p)) =>
              /\ get_item(items', n) # None
              /\ get_item(items', n)[1].item = n
              /\ hits(items, n) = 0 =>
                     /\ get_item(items', n)[1].price = p
                     /\ get_item(items', n)[1].id = last'.ret
              /\ hits(items, n) > 0 => get_item(items', n) = get_item(items, n)]_vars

\* an add of a name the list did not hold, found by get behind another entry
C4_Witness ==
    /\ last.op = "add" /\ last.hits = 0
    /\ Len(items) = 2
    /\ get_item(items, last.item) = Some(items[2])
    /\ items[2].id = last.ret

\* C5: for a name held exactly once by the in-memory list, remove(name)
\* followed by get(name) returns None, and every other entry is still in the
\* list, in its previous relative order.
C5_RemoveThenGet ==
    [][\A n \in Names :
          (last'.op = "remove" /\ remove_item(n) /\ hits(items, n) = 1) =>
              LET k == first_match(items, n)
              IN  /\ get_item(items', n) = None
                  /\ Len(items') = Len(items) - 1
                  /\ \A i \in 1..(k - 1) : items'[i] = items[i]
                  /\ \A i \in k..Len(items') : items'[i] = items[i + 1]]_vars

\* a remove of a name held once, with another entry left behind it
C5_Witness ==
    /\ last.op = "remove" /\ last.hits = 1
    /\ Len(items) = 1
    /\ items[1].item # last.item
    /\ get_item(items, last.item) = None

\* C6: update(old_name) with neither a new name nor a new price changes
\* neither the in-memory list nor the table, whether or not an entry is
\* named old_name.
C6_UpdateNothingIsNoOp ==
    [][\A n \in Names :
          (last'.op = "update" /\ update_item(n, None, None)) =>
              (items' = items /\ table' = table)]_vars

\* an update without new values on a name that the list and the table hold
C6_Witness ==
    /\ last.op = "update" /\ last.no_updates
    /\ last.hits = 1 /\ last.rows = 1
    /\ hits(items, last.item) = 1

\* C7: after refresh() the in-memory list holds exactly the rows of the
\* table, in row order, and get(name) finds an item exactly for the names
\* that have a row.
C7_RefreshRebuilds ==
    last.op = "refresh" =>
        /\ InSync(items, table)
        /\ \A n \in Names : (get_item(items, n) # None) <=> (rows(table, n) > 0)

\* a refresh of a list that differed from the table after an out-of-band
\* insert
C7_Witness ==
    /\ last.op = "refresh" /\ ~last.sync0
    /\ external
    /\ Len(items) = 2

\* sum of the prices of the entries, taken entry by entry in no fixed order
RECURSIVE SumOver(_, _)
SumOver(S, its) ==
    IF S = {} THEN 0
    ELSE LET i == CHOOSE x \in S : TRUE
         IN  its[i].price + SumOver(S \ {i}, its)

\* C8: total() is the sum of the prices of the in-memory list and 0 for the
\* empty list; an add of price p raises it by p and a remove lowers it by the
\* price of the entry removed.
C8_TotalIsSumOfPrices ==
    /\ [](/\ get_total_price(items) = SumOver(DOMAIN items, items)
          /\ items = <<>> => get_total_price(items) = 0)
    /\ [][/\ \A n \in Names, p \in Prices :
               (last'.op = "add" /\ add_item(n, p)) =>
                   get_total_price(items') = get_total_price(items) + p
          /\ \A n \in Names :
               (last'.op = "remove" /\ remove_item(n)) =>
                   get_total_price(items') =
                       IF first_match(items, n) = 0 THEN get_total_price(items)
                       ELSE get_total_price(items)
                                - items[first_match(items, n)].price]_vars

\* two adds of price 1 on an empty cart
C8_Witness ==
    /\ last.op = "add"
    /\ Len(items) = 2
    /\ items[1].price = 1 /\ items[2].price = 1
    /\ get_total_price(items) = 2

\* C9: remove(name) destroys the first match only, in the list and in the
\* table: of k >= 1 entries and k rows named name, k-1 of each remain.
C9_RemoveFirstMatchOnly ==
    [][\A n \in Names :
          (/\ last'.op = "remove" /\ remove_item(n)
           /\ hits(items, n) >= 1 /\ rows(table, n) = hits(items, n)) =>
              /\ hits(items', n) = hits(items, n) - 1
              /\ rows(table', n) = rows(table, n) - 1]_vars

\* C10: the Store's delete by name (Database.remove_item) deletes every row
\* with that name and nothing else: no row of that name is left and the rows
\* of other names are all kept, unchanged and in the same order.
C10_DeleteByNameDeletesAll ==
    [][\A n \in Names :
          (last'.op = "remove" /\ remove_item(n)) =>
              /\ \A i \in 1..Len(table') : table'[i][2] # n
              /\ Len(table') = Len(table) - rows(table, n)
              /\ \A i \in 1..Len(table) :
                    table[i][2] # n => \E k \in 1..Len(table') : table'[k] = table[i]
              /\ \A i, j \in 1..Len(table) :
                    (i < j /\ table[i][2] # n /\ table[j][2] # n) =>
                        \E k, l \in 1..Len(table') :
                            k < l /\ table'[k] = table[i] /\ table'[l] = table[j]]_vars

\* a delete by name that found two rows of that name and deleted both
C10_Witness ==
    /\ last.op = "remove" /\ last.rows = 2
    /\ rows(table, last.item) = 0

\* C11: the Store's update (Database.update_item, reached through
\* update_item) with at least one new value sets, on the rows named name,
\* the name to every given new_name and the price to every given new_price,
\* an empty name and a price of 0 included; it keeps their ids and leaves the
\* other rows alone.  With neither given the table is unchanged.
C11_StoreUpdateSetsGivenValues ==
    [][\A n \in Names, nn \in OptNames, np \in OptPrices :
          (last'.op = "update" /\ update_item(n, nn, np)) =>
              /\ Len(table') = Len(table)
              /\ \A i \in 1..Len(table) :
                    table'[i] =
                        IF table[i][2] = n
                        THEN <<table[i][1],
                               IF nn # None THEN nn[1] ELSE table[i][2],
                               IF np # None THEN np[1] ELSE table[i][3]>>
                        ELSE table[i]]_vars

\* ids of the rows of a table
row_ids(tbl) == {tbl[i][1] : i \in 1..Len(tbl)}

\* C12: the Store's insert (Database.add_item, reached through add_item)
\* adds exactly one row with that name and price behind the existing rows,
\* which are unchanged, and returns the id of the new row, an id no other row
\* of the table carries; on an empty table two inserts in a row return 1 and
\* then 2.
C12_InsertAddsOneRow ==
    [][\A n \in Names, p \in Prices :
          (last'.op = "add" /\ add_item(n, p)) =>
              /\ Len(table') = Len(table) + 1
              /\ \A i \in 1..Len(table) : table'[i] = table[i]
              /\ table'[Len(table')] = <<last'.ret, n, p>>
              /\ last'.ret \notin row_ids(table)
              /\ table = <<>> => last'.ret = 1
              /\ (last.op = "add" /\ last.ret = 1 /\ Len(table) = 1) => last'.ret = 2]_vars

\* the second of two inserts on an empty table, which returned 2
C12_Witness ==
    /\ last.op = "add" /\ last.ret = 2
    /\ Len(table) = 2
    /\ table[1][1] = 1 /\ table[2][1] = 2

\* C13: add(name, price) appends exactly one entry at the end of the
\* in-memory list: count() grows by one, the earlier entries keep their order
\* and values, and the last entry carries name, price and the id that add
\* returned, the id of the inserted row.
C13_AddAppendsOneEntry ==
    [][\A n \in Names, p \in Prices :
          (last'.op = "add" /\ add_item(n, p)) =>
              /\ get_count(items') = get_count(items) + 1
              /\ \A i \in 1..Len(items) : items'[i] = items[i]
              /\ items'[Len(items')].item = n
              /\ items'[Len(items')].price = p
              /\ items'[Len(items')].id = last'.ret
              /\ table'[Len(table')][1] = last'.ret]_vars

\* an add behind an entry already in the list
C13_Witness ==
    /\ last.op = "add"
    /\ get_count(items) = 2
    /\ items[2].item = last.item /\ items[2].id = last.ret
    /\ items[1].id # items[2].id

\* C18: remove(name) asks the Store to delete by name whether or not the
\* in-memory list has an entry of that name: afterwards the table has no row
\* named name, and with no entry of that name the list is unchanged.
C18_RemoveAlwaysDeletesRows ==
    [][\A n \in Names :
          (last'.op = "remove" /\ remove_item(n)) =>
              /\ rows(table', n) = 0
              /\ hits(items, n) = 0 => items' = items]_vars

\* a remove of a name that only the table held
C18_Witness ==
    /\ last.op = "remove" /\ last.hits = 0 /\ last.rows >= 1
    /\ rows(table, last.item) = 0

\* C16: every add, remove and update that returns appends at least one line
\* to the process-wide log, a remove of a name the list does not hold and an
\* update without new values included.
C16_MutationsAreLogged ==
    (last.op \in Mutations /\ last.error = "") => Len(last.logged) >= 1

\* a remove that found no entry in the list and still logged the Store's line
C16_Witness ==
    /\ last.op = "remove" /\ last.hits = 0
    /\ last.logged = <<"INFO">>

\* C14: add(name, price) with a name that is not a string or a price that is
\* not a number raises the validation error to its caller and changes neither
\* the in-memory list nor the table.  (The values of such a call are of no
\* account; "" and 0 stand for them.)
C14_InvalidAddChangesNothing ==
    [][\A it \in PyTypes, pt \in PyTypes :
          (/\ last'.op = "add"
           /\ it # "str" \/ pt \notin {"int", "float"}
           /\ add_item_any(it, pt, "", 0)) =>
              /\ last'.error = "ValueError"
              /\ items' = items /\ table' = table]_vars

\* a rejected add on a cart that holds an entry
C14_Witness ==
    /\ last.op = "add" /\ last.error = "ValueError"
    /\ Len(items) = 1 /\ Len(table) = 1

\* C15: an I/O error in export_shopping_list, export_cart_to_json or
\* export_logs is caught and logged, not raised to the caller, and an export,
\* failed or not, leaves the in-memory list and the table unchanged.
C15_ExportErrorsAreCaught ==
    [][\A io \in IOOutcomes :
          (export_shopping_list(io) \/ export_cart_to_json(io) \/ export_logs(io)) =>
              /\ io \in IOErrors => (last'.error = "" /\ last'.logged = <<"ERROR">>)
              /\ items' = items /\ table' = table]_vars

\* C20: in the GUI, when the text of the price field does not parse as a
\* number, add_item_to_cart shows the "Invalid Input" dialog exactly once and
\* adds nothing: the in-memory list and the table are unchanged.
C20_GuiInvalidPrice ==
    [][\A n \in Names, t \in NotNumbers :
          (last'.op = "add_item_to_cart" /\ add_item_to_cart(n, t)) =>
              /\ last'.dialogs = <<"Invalid Input">>
              /\ last'.calls = <<>>
              /\ items' = items /\ table' = table]_vars

\* the dialog was shown over a cart that holds an entry
C20_Witness ==
    /\ last.op = "add_item_to_cart" /\ last.dialogs = <<"Invalid Input">>
    /\ Len(items) = 1 /\ Len(table) = 1
\* C19: for every CLI option, run() with that option alone and well-formed
\* arguments performs the Cart operation of the option exactly once.
C19_OneOptionOneCall ==
    [][\A o \in Options, io \in IOOutcomes :
          \A args \in OneOption(o) :
              (last'.op = "run" /\ run(args, io)) =>
                  last'.calls = <<CartOperation(o)>>]_vars
\* C17: after an initialize() on a fresh or legacy database, however many
\* came before, schema_version holds exactly one row and the copy-drop-rename
\* migration has run at most once; an initialize() that finds version >= 1
\* leaves the rows of the cart table unchanged.
C17_InitializeGuardedByVersion ==
    [][(last'.op = "initialize" /\ initialize) =>
          /\ Len(store'.schema_version) = 1
          /\ store'.migrations <= 1
          /\ current_version(store) >= 1 => table' = table]_vars

\* C21: update_item(old_name, new_name, new_price) with at least one new value
\* given changes only the first list entry named old_name: its name becomes
\* new_name if given, its price new_price if given, it keeps its id and its
\* position, the list keeps its length and every other entry stays as it was;
\* with no entry named old_name the list is unchanged.
C21_UpdateFirstMatchInPlace ==
    [][\A old \in Names, nn \in OptNames, np \in OptPrices :
          (/\ last'.op = "update"
           /\ last'.item = old
           /\ nn # None \/ np # None
           /\ update_item(old, nn, np)) =>
              LET k == first_match(items, old)
              IN  /\ Len(items') = Len(items)
                  /\ \A j \in 1..Len(items) : j # k => items'[j] = items[j]
                  /\ k # 0 =>
                       /\ items'[k].id = items[k].id
                       /\ items'[k].item = (IF nn # None THEN nn[1] ELSE items[k].item)
                       /\ items'[k].price = (IF np # None THEN np[1] ELSE items[k].price)]_vars

\* an update with a new name was made on a list with two entries of that name
C21_Witness ==
    /\ last.op = "update" /\ ~last.no_updates /\ last.hits = 2
    /\ Len(items) = 2 /\ items[1].item # items[2].item

\* C22: the copy-drop-rename migration preserves the cart's contents: for a
\* legacy table without NULL, the migrated table holds the same (name, price)
\* pairs in the same order, with pairwise distinct ids, and no cart_new table
\* remains.
C22_MigrationPreservesRows ==
    [][(/\ last'.op = "initialize"
        /\ initialize
        /\ current_version(store) < 1
        /\ \A i \in DOMAIN table : table[i][2] # NULL) =>
           /\ Len(table') = Len(table)
           /\ \A i \in DOMAIN table :
                 table'[i][2] = table[i][2] /\ table'[i][3] = table[i][3]
           /\ \A i \in DOMAIN table', j \in DOMAIN table' :
                 i # j => table'[i][1] # table'[j][1]
           /\ ~store'.cart_new
           /\ store'.cart = "current"]_vars

\* a legacy table of two equal rows was migrated
C22_Witness ==
    /\ last.op = "initialize" /\ last.calls = <<"update_schema">> /\ last.error = ""
    /\ store.migrations = 1
    /\ Len(table) = 2 /\ table[1][2] = table[2][2] /\ table[1][3] = table[2][3]

\* C23: in the GUI, changing the name cell of a row from old to new renames
\* that item in the cart: afterwards get(new) returns an item and, if old was
\* present once, get(old) returns nothing, in the in-memory list and in the
\* table.
C23_GuiRenameRenames ==
    [][\A row \in 1..MaxRows, new \in Names :
          (/\ last'.op = "handle_item_changed"
           /\ row \in DOMAIN shown
           /\ new # shown[row].item
           /\ shown[row].price # None
           /\ hits(items, shown[row].item) >= 1
           /\ handle_item_changed(row, 1, new)) =>
              LET old == shown[row].item
              IN  /\ get_item(items', new) # None
                  /\ rows(table', new) >= 1
                  /\ hits(items, old) = 1 => get_item(items', old) = None
                  /\ rows(table, old) = 1 => rows(table', old) = 0]_vars

\* C24: from a list equal to the table and with no external writer, any
\* sequence of add, remove and update calls that keeps the names pairwise
\* distinct, gives no empty new name and no new price of 0 keeps the list equal
\* to the table: same ids, names, prices and order after every call.
C24_DistinctNamesStayInSync ==
    /\ InSync(items, table)
    /\ \A i \in DOMAIN items, j \in DOMAIN items :
          i # j => items[i].item # items[j].item

\* a rename was made on a list of two entries
C24_Witness ==
    /\ last.op = "update" /\ ~last.no_updates /\ last.hits = 1
    /\ Len(items) = 2 /\ items[1].item = "b" /\ items[1].price = 1
    /\ items[2].item = "a"
    /\ InSync(items, table)

\* C25: when the Store insert fails while add_item runs, the failure goes to
\* the caller and the cart is as before the call: the list has no entry for
\* the failed item, none without an id, and get_count and get_total_price
\* give what they gave before.
C25_FailedInsertLeavesCart ==
    [][\A n \in Names, p \in Prices :
          (last'.op = "add" /\ add_item_insert_error(n, p)) =>
              /\ last'.error # ""
              /\ items' = items
              /\ \A i \in DOMAIN items' : items'[i].id # NoId
              /\ get_count(items') = get_count(items)
              /\ get_total_price(items') = get_total_price(items)]_vars

====
